---------------------------- MODULE Spec2Model ----------------------------
(***************************************************************************)
(* A model of the platformer: level loading (levels.py), the player's      *)
(* per-frame physics and the sprite animation (level_objects.py) and the   *)
(* game loop (main.py).                                                    *)
(*                                                                         *)
(* Five specifications share the module:                                   *)
(*   SpecLoad  Level(...) applied to every short map text;                 *)
(*   Spec      the level-sequencing loop and play(), frame by frame;       *)
(*   SpecFall  the same loop on a tall first level;                        *)
(*   SpecSeq   the same loop on two maps of one row, attempt by attempt;   *)
(*   SpecAnim  Level.update called on a small level at chosen times.       *)
(*                                                                         *)
(* Lengths are pixels.  Vertical speed is kept in tenths of a pixel per    *)
(* frame (FALL_ACCELERATION = 0.3), see move_ip_vertical for the float     *)
(* arithmetic of the code.                                                 *)
(***************************************************************************)
EXTENDS Integers, Sequences, FiniteSets, TLC

VARIABLES
    text,           \* SpecLoad: the content of the map file
    loaded,         \* SpecLoad: what Level(name, file, size) gave the caller
    pc,             \* Spec: where the main script is
    level_no,       \* Spec: i of "for i, file_name in enumerate(levels, start=1)"
    current_level,  \* Spec: the Level instance of the running attempt
    last,           \* Spec: log of the last loop iteration of play()
    now,            \* the clock as last read or slept to: pygame.time.get_ticks()
    anim,           \* per member of all_objects: sprite_animation_index,
                    \* next_animation_time and surf
    shown,          \* log of the last Level.update: anim before it, the clock readings
    last_tick       \* the clock at the end of the last clock.tick (at first,
                    \* as pygame.time.Clock() was made)

vars == <<text, loaded, pc, level_no, current_level, last, now, anim, shown,
          last_tick>>

-----------------------------------------------------------------------------
(* Program constants *)

SPRITE_SIZE == 32
ANIMATION_SPEED == 150
MOVE_SPEED == 2
JUMP_SPEED == 10
\* FALL_ACCELERATION = 0.3, in tenths of a pixel per frame
FALL_ACCELERATION == 3

(* Bounds of the model *)

\* SpecLoad: the longest map text, in characters
MaxText == 4

-----------------------------------------------------------------------------
(* Level objects: BaseObject.__init__                                      *)

\* The size of the images of sprite_filenames, which pygame.image.load
\* reads from sprites/*.png.  The files are not among the sources; the
\* description of the game gives every object a square box of the tile
\* size, shared by the grid and all sprites.
image_width == SPRITE_SIZE
image_height == SPRITE_SIZE

\* self.rect = self.surf.get_rect(left=x, top=y): the rectangle of the
\* first image, its top left corner at (x, y)
BaseObject(kind, x, y) == [kind |-> kind, x |-> x, y |-> y]

left(o) == o.x
right(o) == o.x + image_width
top(o) == o.y
bottom(o) == o.y + image_height

\* Player.__init__: a level object with the resting flag and the two speeds.
\* sprites names the frame set self.sprites refers to (_load_sprites leaves
\* it at sprites_right).
Player(x, y) ==
    [kind |-> "Player", x |-> x, y |-> y, sprites |-> "right",
     bottom_collision |-> FALSE, horizontal_speed |-> 0, vertical_speed |-> 0]

\* pygame.Rect.colliderect: the boxes share area (touching edges do not collide)
colliderect(a, b) ==
    /\ left(a) < right(b) /\ left(b) < right(a)
    /\ top(a) < bottom(b) /\ top(b) < bottom(a)

-----------------------------------------------------------------------------
(* Level loading: Level.__init__, Level.load_map, Level._read_from_file    *)

NL == "\n"
Chars == {"B", "T", "t", "E", "P", " ", ".", NL}
Whitespace == {" ", NL}

\* f.readlines(): the text cut after every newline, newlines kept; text
\* after the last newline is a line of its own
readlines(s) ==
    LET newlines == SelectSeq([i \in 1..Len(s) |-> i], LAMBDA i : s[i] = NL)
        ends == IF s # <<>> /\ s[Len(s)] # NL
                THEN Append(newlines, Len(s)) ELSE newlines
    IN [r \in 1..Len(ends) |->
           SubSeq(s, IF r = 1 THEN 1 ELSE ends[r - 1] + 1, ends[r])]

\* str.strip(): whitespace removed at BOTH ends of the row
strip(row) ==
    LET keep == {i \in 1..Len(row) : row[i] \notin Whitespace}
    IN IF keep = {} THEN <<>>
       ELSE LET lo == CHOOSE i \in keep : \A j \in keep : i <= j
                hi == CHOOSE i \in keep : \A j \in keep : j <= i
            IN SubSeq(row, lo, hi)

\* Level._read_from_file: [list(row.strip()) for row in text_map]
read_from_file(s) ==
    LET rows == readlines(s) IN [r \in 1..Len(rows) |-> strip(rows[r])]

\* The cells of the nested loops of load_map from row r on, in the order
\* they are visited: row after row, each row from its first column.
\* row_num and column_num count from 0.
cells_from(level_map, r) ==
    LET lengths == {Len(level_map[q]) : q \in 1..Len(level_map)}
        widest == IF lengths = {} THEN 0
                  ELSE CHOOSE w \in lengths : \A v \in lengths : v <= w
        row_of(k) == ((k - 1) \div widest) + 1
        column_of(k) == ((k - 1) % widest) + 1
        visited == SelectSeq([k \in 1..(Len(level_map) * widest) |-> k],
                             LAMBDA k : /\ row_of(k) >= r
                                        /\ column_of(k) <= Len(level_map[row_of(k)]))
    IN [j \in 1..Len(visited) |->
           [row_num |-> row_of(visited[j]) - 1,
            column_num |-> column_of(visited[j]) - 1,
            cell |-> level_map[row_of(visited[j])][column_of(visited[j])]]]

\* Level.__init__ before load_map: no player, empty groups
EmptyLevel ==
    [error |-> "", player |-> <<>>, safe_objects |-> <<>>, traps |-> <<>>,
     exits |-> <<>>, all_objects |-> <<>>]

\* Mutant: load_map without its duplicate-player test
duplicate_player_never(lv) == FALSE

\* The second "P": the duplicate-player test of load_map
duplicate_player(lv) == lv.player # <<>>

\* The body of the inner loop of load_map for one cell
load_cell(lv, c) ==
    LET x == c.column_num * SPRITE_SIZE
        y == c.row_num * SPRITE_SIZE
    IN CASE c.cell = "B" ->
              [lv EXCEPT !.safe_objects = Append(@, BaseObject("Block", x, y))]
         [] c.cell = "T" ->
              [lv EXCEPT !.traps = Append(@, BaseObject("Fire", x, y))]
         [] c.cell = "t" ->
              [lv EXCEPT !.traps = Append(@, BaseObject("BlueFire", x, y))]
         [] c.cell = "E" ->
              [lv EXCEPT !.exits = Append(@, BaseObject("LevelExit", x, y))]
         [] c.cell = "P" ->
              IF duplicate_player(lv)
              THEN [lv EXCEPT !.error = "ValueError"]
              ELSE [lv EXCEPT !.player = <<Player(x, y)>>]
         [] OTHER -> lv

\* The nested loops of load_map: the raise leaves the loops at once
RECURSIVE scan(_, _, _)
scan(lv, cs, i) ==
    IF i > Len(cs) \/ lv.error # "" THEN lv
    ELSE scan(load_cell(lv, cs[i]), cs, i + 1)

\* Mutant: the unset player is left out of all_objects and nothing is raised
add_all_objects_skip_none(lv) ==
    [lv EXCEPT !.all_objects =
        (IF lv.player = <<>> THEN <<>> ELSE <<[group |-> "player", index |-> 1]>>)
        \o [i \in 1..Len(lv.safe_objects) |-> [group |-> "safe_objects", index |-> i]]
        \o [i \in 1..Len(lv.traps) |-> [group |-> "traps", index |-> i]]
        \o [i \in 1..Len(lv.exits) |-> [group |-> "exits", index |-> i]]]

\* A member of all_objects: a reference to the object that is member
\* `index` of `group`
Ref(group, index) == [group |-> group, index |-> index]
Refs(group, objs) == [i \in 1..Len(objs) |-> Ref(group, i)]

\* self.all_objects.add(self.player), then the three groups.  Group.add of
\* an object that is no sprite ends in sprite.add_internal(self): with the
\* player still None that is an AttributeError.
add_all_objects(lv) ==
    IF lv.player = <<>>
    THEN [lv EXCEPT !.error = "AttributeError"]
    ELSE [lv EXCEPT !.all_objects =
                        Refs("player", lv.player) \o Refs("safe_objects", lv.safe_objects)
                        \o Refs("traps", lv.traps) \o Refs("exits", lv.exits)]

\* Level.load_map, on the object __init__ prepared
load_map(s) ==
    LET lv == scan(EmptyLevel, cells_from(read_from_file(s), 1), 1)
    IN IF lv.error # "" THEN lv ELSE add_all_objects(lv)

\* What `Level(name, file, size)` gives its caller: the instance, or the
\* exception that left __init__ (and then no instance at all).
NoLevel == [raised |-> "", instance |-> <<>>, scanned |-> EmptyLevel]
Level(s) ==
    LET lv == load_map(s)
    IN [raised   |-> lv.error,
        instance |-> IF lv.error = "" THEN <<lv>> ELSE <<>>,
        scanned  |-> lv]


-----------------------------------------------------------------------------
(* Player physics: Player.update and Player._movement_with_collision       *)

\* The keys held in one frame: pressed_keys[K_UP], [K_LEFT], [K_RIGHT]
Keys == [up : BOOLEAN, left : BOOLEAN, right : BOOLEAN]
NoKeys == [up |-> FALSE, left |-> FALSE, right |-> FALSE]

\* vertical_speed is a Python float built by adding 0.3 to 0 or to -10.
\* These are the sums (in tenths) that the float arithmetic leaves a hair
\* nearer zero than the whole number they stand for (0.3 added ten times
\* is 2.9999999999999996), for speeds up to 80 pixels per frame.
FloatShort ==
    {-70, -40, -10, 30, 50, 60, 80, 380, 390, 410, 420, 440, 450, 470, 480,
     500, 510, 530, 540, 560, 570, 590, 600, 620, 630, 650, 660, 680, 690,
     710, 720, 740, 750, 770, 780, 800}

\* Rect.move_ip(0, vertical_speed): the float is cut to an int toward zero
move_ip_vertical(v) ==
    LET whole == IF v >= 0 THEN v \div 10 ELSE -((-v) \div 10)
    IN IF v \in FloatShort
       THEN (IF v > 0 THEN whole - 1 ELSE whole + 1)
       ELSE whole

\* Mutant: the jump test without the resting flag
can_jump_in_air(p, keys) == keys.up

\* Mutant: the jump test never succeeds
can_jump_never(p, keys) == FALSE

\* The jump test of Player.update
can_jump(p, keys) == keys.up /\ p.bottom_collision

\* The part of Player.update that picks the frame set: self.sprites becomes
\* sprites_left on "left", then sprites_right on "right"
select_sprites(sprites, keys) ==
    IF keys.right THEN "right" ELSE IF keys.left THEN "left" ELSE sprites

\* Mutant: with "left" and "right" both pressed, left wins
apply_keys_left_wins(p, keys) ==
    LET v  == IF can_jump(p, keys) THEN -(JUMP_SPEED * 10) ELSE p.vertical_speed
        h  == IF keys.left THEN -MOVE_SPEED
              ELSE IF keys.right THEN MOVE_SPEED ELSE 0
        sp == IF keys.left THEN "left" ELSE IF keys.right THEN "right" ELSE p.sprites
    IN [p EXCEPT !.horizontal_speed = h, !.vertical_speed = v, !.sprites = sp]

\* Player.update up to the call of _movement_with_collision: the speeds and
\* the frame set derived from the keys
apply_keys(p, keys) ==
    LET v  == IF can_jump(p, keys) THEN -(JUMP_SPEED * 10) ELSE p.vertical_speed
        h  == IF keys.right THEN MOVE_SPEED
              ELSE IF keys.left THEN -MOVE_SPEED ELSE 0
        sp == select_sprites(p.sprites, keys)
    IN [p EXCEPT !.horizontal_speed = h, !.vertical_speed = v, !.sprites = sp]

\* Mutant: a horizontal hit stops the player and leaves the overlap
horizontal_hit_no_snap(p, o) ==
    IF colliderect(o, p) /\ p.horizontal_speed # 0
    THEN [p EXCEPT !.horizontal_speed = 0]
    ELSE p

\* One object of the horizontal loop
horizontal_hit(p, o) ==
    IF ~colliderect(o, p) THEN p
    ELSE IF p.horizontal_speed > 0 /\ right(p) >= left(o)
         THEN [p EXCEPT !.horizontal_speed = 0, !.x = @ + (left(o) - right(p))]
    ELSE IF p.horizontal_speed < 0 /\ left(p) <= right(o)
         THEN [p EXCEPT !.horizontal_speed = 0, !.x = @ + (right(o) - left(p))]
    ELSE p

\* Mutant: a hit from below sets the resting flag as a landing does
vertical_hit_ceiling_rests(p, o) ==
    IF ~colliderect(o, p) THEN p
    ELSE IF p.vertical_speed > 0 /\ bottom(p) > top(o)
         THEN [p EXCEPT !.vertical_speed = 0, !.bottom_collision = TRUE,
                        !.y = @ + (top(o) - bottom(p))]
    ELSE IF p.vertical_speed < 0 /\ top(p) <= bottom(o)
         THEN [p EXCEPT !.vertical_speed = 0, !.bottom_collision = TRUE,
                        !.y = @ + (bottom(o) - top(p))]
    ELSE p

\* Mutant: a vertical hit stops the player and leaves the overlap
vertical_hit_no_snap(p, o) ==
    IF ~colliderect(o, p) THEN p
    ELSE IF p.vertical_speed > 0 /\ bottom(p) > top(o)
         THEN [p EXCEPT !.vertical_speed = 0, !.bottom_collision = TRUE]
    ELSE IF p.vertical_speed < 0 /\ top(p) <= bottom(o)
         THEN [p EXCEPT !.vertical_speed = 0]
    ELSE p

\* One object of the vertical loop
vertical_hit(p, o) ==
    IF ~colliderect(o, p) THEN p
    ELSE IF p.vertical_speed > 0 /\ bottom(p) > top(o)
         THEN [p EXCEPT !.vertical_speed = 0, !.bottom_collision = TRUE,
                        !.y = @ + (top(o) - bottom(p))]
    ELSE IF p.vertical_speed < 0 /\ top(p) <= bottom(o)
         THEN [p EXCEPT !.vertical_speed = 0, !.y = @ + (bottom(o) - top(p))]
    ELSE p

\* "for level_object in level_objects": the group in the order the objects
\* were added.  Each pass of the loop works on the player as the pass
\* before left it (the set binds q to that value before the next pass).
RECURSIVE horizontal_loop(_, _, _)
horizontal_loop(p, objs, i) ==
    IF i > Len(objs) THEN p
    ELSE CHOOSE r \in {horizontal_loop(q, objs, i + 1) :
                           q \in {horizontal_hit(p, objs[i])}} : TRUE

\* Mutant: the vertical loop takes the group from its last object to its
\* first
RECURSIVE vertical_loop_reversed(_, _, _)
vertical_loop_reversed(p, objs, i) ==
    IF i > Len(objs) THEN p
    ELSE CHOOSE r \in {vertical_loop_reversed(q, objs, i + 1) :
                           q \in {vertical_hit(p, objs[Len(objs) + 1 - i])}} : TRUE

RECURSIVE vertical_loop(_, _, _)
vertical_loop(p, objs, i) ==
    IF i > Len(objs) THEN p
    ELSE CHOOSE r \in {vertical_loop(q, objs, i + 1) :
                           q \in {vertical_hit(p, objs[i])}} : TRUE

\* Mutant: the resting flag is not reset before the collision passes
keep_bottom_collision(p) == p

\* self.bottom_collision = False at the head of _movement_with_collision
reset_bottom_collision(p) == [p EXCEPT !.bottom_collision = FALSE]

\* Player._movement_with_collision
movement_with_collision(p, objs) ==
    LET p0 == reset_bottom_collision(p)
        p1 == [p0 EXCEPT !.x = @ + p0.horizontal_speed]
        p2 == horizontal_loop(p1, objs, 1)
        p3 == [p2 EXCEPT !.y = @ + move_ip_vertical(p2.vertical_speed)]
    IN vertical_loop(p3, objs, 1)

\* Mutant: the fall acceleration is added whether or not the player rests
fall_always(p) == [p EXCEPT !.vertical_speed = @ + FALL_ACCELERATION]

\* The last statement of Player.update
fall(p) ==
    IF ~p.bottom_collision
    THEN [p EXCEPT !.vertical_speed = @ + FALL_ACCELERATION]
    ELSE p

\* Player.update
Player_update(p, keys, objs) ==
    fall(movement_with_collision(apply_keys(p, keys), objs))


-----------------------------------------------------------------------------
(* Sprite animation: BaseObject.__init__ and BaseObject.animate            *)

\* len(sprite_filenames) of each class
sprite_count(kind) ==
    CASE kind = "Block" -> 1
      [] kind = "LevelExit" -> 1
      [] kind = "Fire" -> 7
      [] kind = "BlueFire" -> 7
      [] kind = "Player" -> 4

\* Mutant: a late call makes up every frame that fell due since the last one
animate_catch_up(o, t, sprites) ==
    IF sprite_count(o.kind) > 1 /\ t - o.next_animation_time > 0
    THEN LET k == ((t - o.next_animation_time - 1) \div ANIMATION_SPEED) + 1
             i == (o.sprite_animation_index + k) % sprite_count(o.kind)
         IN [o EXCEPT !.sprite_animation_index = i,
                      !.surf = [sprites |-> sprites, index |-> i],
                      !.next_animation_time = @ + k * ANIMATION_SPEED]
    ELSE o

\* Mutant: the next-due time counted from the time of the call
animate_drift(o, t, sprites) ==
    IF sprite_count(o.kind) > 1 /\ t - o.next_animation_time > 0
    THEN LET i == (o.sprite_animation_index + 1) % sprite_count(o.kind)
         IN [o EXCEPT !.sprite_animation_index = i,
                      !.surf = [sprites |-> sprites, index |-> i],
                      !.next_animation_time = t + ANIMATION_SPEED]
    ELSE o

\* BaseObject.animate at time t = pygame.time.get_ticks().  surf is the
\* frame on display: the frame set it was taken from and its index.
animate(o, t, sprites) ==
    IF sprite_count(o.kind) > 1 /\ t - o.next_animation_time > 0
    THEN LET i == (o.sprite_animation_index + 1) % sprite_count(o.kind)
         IN [o EXCEPT !.sprite_animation_index = i,
                      !.surf = [sprites |-> sprites, index |-> i],
                      !.next_animation_time = @ + ANIMATION_SPEED]
    ELSE o

\* BaseObject.__init__ at time t with random.randint(0, 500) = jitter
new_animation(kind, t, jitter) ==
    [kind |-> kind, sprite_animation_index |-> 0,
     next_animation_time |-> t + jitter,
     surf |-> [sprites |-> "right", index |-> 0]]

\* The frame set an object's sprites attribute refers to
sprites_of(o, player_sprites) ==
    IF o.kind = "Player" THEN player_sprites ELSE "right"

\* The object a member of all_objects refers to
deref(lv, ref) == lv[ref.group][ref.index]

\* The animation fields of the objects of lv, in all_objects order, as the
\* __init__ of each set them: object i read the clock as ticks[i] and drew
\* random.randint(0, 500) = draws[i]
new_animations(lv, ticks, draws) ==
    [i \in 1..Len(lv.all_objects) |->
        new_animation(deref(lv, lv.all_objects[i]).kind, ticks[i], draws[i])]

\* "for obj in self.all_objects: obj.animate()": each call reads the clock
\* itself, the call on object i as ticks[i]
animate_all(anims, ticks, player_sprites) ==
    [i \in 1..Len(anims) |->
        animate(anims[i], ticks[i], sprites_of(anims[i], player_sprites))]

\* The clock as n calls in a row read it: t, and from call `slip` on a
\* millisecond more (slip = 0: the clock does not move between the calls)
readings(n, t, slip) ==
    [i \in 1..n |-> IF slip > 0 /\ i >= slip THEN t + 1 ELSE t]

-----------------------------------------------------------------------------
(* The game loop: play() and the level loop of main.py                     *)

\* The level files of the model, in place of maps/level1.txt, maps/level2.txt
Level1 ==
    << "B", "B", "B", "B", "B", NL,
       "B", " ", "P", " ", "B", NL,
       "B", " ", " ", " ", "B", NL,
       "B", "B", "T", "E", "B", NL >>
Level2 ==
    << "B", "B", "B", "B", "B", NL,
       "B", "B", ".", "t", "B", NL,
       "B", "P", ".", ".", "B", NL,
       "B", "B", "B", "E", "B", NL >>
levels == << Level1, Level2 >>

\* clock.tick(FRAMERATE) lets an iteration of play() take 1000 / FRAMERATE
\* milliseconds and no less
FRAMERATE == 120
frame_time == 1000 \div FRAMERATE

\* clock.tick(FRAMERATE) called at time t, the tick before it having ended
\* at time `previous`: it waits for what is left of the frame time, if
\* anything is, and the result is the clock as it returns
clock_tick(t, previous) ==
    LET delay == frame_time - (t - previous)
    IN IF delay > 0 THEN t + delay ELSE t

\* time.sleep(1), in milliseconds
sleep_time == 1000

\* The values of random.randint(0, 500) the objects of a played level draw
GameJitters == {120}

\* pygame.sprite.spritecollideany(sprite, group)
spritecollideany(sprite, group) ==
    \E i \in 1..Len(group) : colliderect(sprite, group[i])

the_level == current_level[1]
the_player == current_level[1].player[1]

\* What the log keeps of the player an iteration started with
Before(p) ==
    [x |-> p.x, y |-> p.y, vertical_speed |-> p.vertical_speed,
     bottom_collision |-> p.bottom_collision]
NoLast == [step |-> "", keys |-> NoKeys, before |-> Before(Player(0, 0))]

\* Mutant: the physics run against the hazards and the exits as well
Level_update_all(lv, anims, keys, ticks) ==
    LET p == Player_update(lv.player[1], keys,
                           lv.safe_objects \o lv.traps \o lv.exits)
    IN [level |-> [lv EXCEPT !.player = <<p>>],
        anim  |-> animate_all(anims, ticks, p.sprites)]

\* Level.update: the player's physics against safe_objects only, then the
\* animate call on every member of all_objects.  A level is the instance lv
\* and the animation fields anims of its objects.
Level_update(lv, anims, keys, ticks) ==
    LET p == Player_update(lv.player[1], keys, lv.safe_objects)
    IN [level |-> [lv EXCEPT !.player = <<p>>],
        anim  |-> animate_all(anims, ticks, p.sprites)]

\* Mutant: after a failed attempt the level loop plays the instance it has
ConstructFrom_reuse(files) ==
    /\ pc = "construct"
    /\ \E jitter \in GameJitters :
          LET made == Level(files[level_no])
              reuse == last.step = "lose"
              n == Len(made.scanned.all_objects)
          IN /\ current_level' = IF reuse THEN current_level ELSE made.instance
             /\ anim' = IF reuse THEN anim
                        ELSE new_animations(made.scanned, readings(n, now, 0),
                                            [i \in 1..n |-> jitter])
             /\ pc' = IF made.raised = "" THEN "play" ELSE made.raised
             /\ now' = IF made.raised = "" THEN now + 2 * sleep_time ELSE now
    /\ last' = NoLast
    /\ shown' = <<>>
    /\ UNCHANGED <<level_no, text, loaded, last_tick>>

\* current_level = Level(f"Level {i}", file_name, SPRITE_SIZE), file_name
\* being the level_no-th of the list `files`: every object reads the clock
\* and draws its random number as it is made.  Then play(current_level) up
\* to its loop: show_message(level.name, GREEN), which sleeps a second, and
\* time.sleep(1).  An exception of Level(...) ends the program there, before
\* play is called.
ConstructFrom(files) ==
    /\ pc = "construct"
    /\ \E jitter \in GameJitters :
          LET made == Level(files[level_no])
              n == Len(made.scanned.all_objects)
          IN /\ current_level' = made.instance
             /\ anim' = new_animations(made.scanned, readings(n, now, 0),
                                       [i \in 1..n |-> jitter])
             /\ pc' = IF made.raised = "" THEN "play" ELSE made.raised
             /\ now' = IF made.raised = "" THEN now + 2 * sleep_time ELSE now
    /\ last' = NoLast
    /\ shown' = <<>>
    /\ UNCHANGED <<level_no, text, loaded, last_tick>>

Construct == ConstructFrom(levels)

\* play(): a QUIT event is in the queue at the start of an iteration:
\* pygame.quit() and sys.exit(), before the two tests and the update
PlayQuit ==
    /\ pc = "play"
    /\ pc' = "quit"
    /\ UNCHANGED <<level_no, current_level, last, text, loaded, now, anim, shown,
                 last_tick>>

\* play(): no QUIT event, and the win test of the iteration succeeds;
\* show_message sleeps a second; back in the level loop win = True ends the
\* while and the for moves on through `files`; after the last of them the
\* victory message (a second), time.sleep(1), pygame.quit() and sys.exit()
PlayWinIn(files) ==
    /\ pc = "play"
    /\ spritecollideany(the_player, the_level.exits)
    /\ last' = [step |-> "win", keys |-> NoKeys, before |-> Before(the_player)]
    /\ IF level_no < Len(files)
       THEN pc' = "construct" /\ level_no' = level_no + 1
                              /\ now' = now + sleep_time
       ELSE pc' = "victory" /\ level_no' = level_no
                            /\ now' = now + 3 * sleep_time
    /\ UNCHANGED <<current_level, text, loaded, anim, shown, last_tick>>

PlayWin == PlayWinIn(levels)

\* Mutant: the lose test made before the win test
PlayLose_first ==
    /\ pc = "play"
    /\ spritecollideany(the_player, the_level.traps)
    /\ last' = [step |-> "lose", keys |-> NoKeys, before |-> Before(the_player)]
    /\ pc' = "construct"
    /\ now' = now + sleep_time
    /\ UNCHANGED <<level_no, current_level, text, loaded, anim, shown, last_tick>>

\* play(): no QUIT event, the win test fails and the lose test succeeds;
\* show_message sleeps a second; win = False, the while runs again
PlayLose ==
    /\ pc = "play"
    /\ ~spritecollideany(the_player, the_level.exits)
    /\ spritecollideany(the_player, the_level.traps)
    /\ last' = [step |-> "lose", keys |-> NoKeys, before |-> Before(the_player)]
    /\ pc' = "construct"
    /\ now' = now + sleep_time
    /\ UNCHANGED <<level_no, current_level, text, loaded, anim, shown, last_tick>>

\* Mutant: level.update runs before the two tests are made
PlayUpdate_unchecked(keys, work, slip) ==
    /\ pc = "play"
    /\ LET ticks == readings(Len(the_level.all_objects), now + work, slip)
           after == Level_update(the_level, anim, keys, ticks)
       IN /\ current_level' = <<after.level>>
          /\ anim' = after.anim
          /\ shown' = <<[before |-> anim, ticks |-> ticks]>>
          /\ now' = clock_tick(ticks[Len(ticks)], last_tick)
    /\ last_tick' = now'
    /\ last' = [step |-> "update", keys |-> keys, before |-> Before(the_player)]
    /\ UNCHANGED <<pc, level_no, text, loaded>>

\* play(): no QUIT event and both tests fail; the frame is drawn and
\* level.update(pressed_keys) runs, after `work` milliseconds of the
\* iteration, the clock moving on as `slip` says while the objects are
\* animated; clock.tick(FRAMERATE) ends the iteration
PlayUpdate(keys, work, slip) ==
    /\ pc = "play"
    /\ ~spritecollideany(the_player, the_level.exits)
    /\ ~spritecollideany(the_player, the_level.traps)
    /\ LET ticks == readings(Len(the_level.all_objects), now + work, slip)
           after == Level_update(the_level, anim, keys, ticks)
       IN /\ current_level' = <<after.level>>
          /\ anim' = after.anim
          /\ shown' = <<[before |-> anim, ticks |-> ticks]>>
          /\ now' = clock_tick(ticks[Len(ticks)], last_tick)
    /\ last_tick' = now'
    /\ last' = [step |-> "update", keys |-> keys, before |-> Before(the_player)]
    /\ UNCHANGED <<pc, level_no, text, loaded>>

\* The clock time up to which the model follows the game
MaxPlayTime == 2176

\* An iteration of play() whose work takes less than a millisecond, so that
\* clock.tick sets the pace, within the time the model follows
PlayFrame(keys) ==
    /\ now + frame_time <= MaxPlayTime
    /\ PlayUpdate(keys, 0, 0)

Init ==
    /\ pc = "construct"
    /\ level_no = 1
    /\ current_level = <<>>
    /\ last = NoLast
    /\ text = <<>>
    /\ loaded = NoLevel
    /\ now = 0
    /\ anim = <<>>
    /\ shown = <<>>
    /\ last_tick = 0

Next ==
    \/ Construct
    \/ PlayQuit
    \/ PlayWin
    \/ PlayLose
    \/ \E keys \in Keys : PlayFrame(keys)

Spec == Init /\ [][Next]_vars

-----------------------------------------------------------------------------
(* SpecFall: the game on a first map taller than the rooms, where the      *)
(* player falls for 227 frames before it meets anything                    *)

\* The level file: "P" at the top left, an exit beside the row below it,
\* 236 empty rows, then a hazard with a block to its right, and two blocks
\* one on the other under the hazard
DeepLevel ==
    << "P", NL, ".", "E", NL >> \o [i \in 1..236 |-> NL]
        \o << "T", "B", NL, "B", NL, "B", NL >>

\* The list `levels` with the tall map as its first file
deep_levels == << DeepLevel, Level2 >>

\* How far down and how far to either side the model follows the player,
\* and up to what clock time
MaxFall == 7700
MaxDrift == 8
MaxFallTime == 3892

\* play(): an iteration that runs level.update on the tall level, followed
\* while the player stays in view
FallUpdate(keys) ==
    /\ level_no = 1
    /\ now + frame_time <= MaxFallTime
    /\ PlayUpdate(keys, 0, 0)
    /\ the_player'.y <= MaxFall
    /\ the_player'.x >= -MaxDrift
    /\ the_player'.x <= MaxDrift

NextFall ==
    \/ ConstructFrom(deep_levels)
    \/ PlayQuit
    \/ PlayWinIn(deep_levels)
    \/ PlayLose
    \/ \E keys \in Keys : FallUpdate(keys)

SpecFall == Init /\ [][NextFall]_vars


-----------------------------------------------------------------------------
(* SpecSeq: the level loop on two maps of one row, where an attempt is     *)
(* over after a frame or two, on a machine that takes a second per frame   *)

\* The level files: the player between a hazard and an exit
Row1 == << "T", "P", "E", NL >>
Row2 == << "E", "P", "t", NL >>
row_levels == << Row1, Row2 >>

\* The time the work of an iteration of play() takes before level.update
\* (a second: clock.tick has nothing to wait for), and the clock time up to
\* which the model follows the game
SeqSteps == {1000}
MaxSeqTime == 12000

\* An iteration of play() that runs level.update, within the time the model
\* follows
SeqFrame(keys) ==
    \E work \in SeqSteps :
        /\ now + work <= MaxSeqTime
        /\ PlayUpdate(keys, work, 0)

NextSeq ==
    \/ ConstructFrom(row_levels)
    \/ PlayQuit
    \/ PlayWinIn(row_levels)
    \/ PlayLose
    \/ \E keys \in Keys : SeqFrame(keys)

SpecSeq == Init /\ [][NextSeq]_vars

-----------------------------------------------------------------------------
(* SpecLoad: Level(...) on every map text of at most MaxText characters    *)

Texts == UNION {[1..n -> Chars] : n \in 0..MaxText}

InitLoad ==
    /\ text \in Texts
    /\ loaded = NoLevel
    /\ pc = "load"
    /\ level_no = 1
    /\ current_level = <<>>
    /\ last = NoLast
    /\ now = 0
    /\ anim = <<>>
    /\ shown = <<>>
    /\ last_tick = 0

\* Level(name, map_filename, sprite_size) on the file holding `text`; anim
\* holds the animation fields of the objects of the instance, if there is
\* one
LoadLevel ==
    /\ pc = "load"
    /\ loaded' = Level(text)
    /\ pc' = IF loaded'.raised = "" THEN "loaded" ELSE loaded'.raised
    /\ \E jitter \in GameJitters :
          LET n == Len(loaded'.scanned.all_objects)
          IN anim' = new_animations(loaded'.scanned, readings(n, now, 0),
                                    [i \in 1..n |-> jitter])
    /\ UNCHANGED <<text, level_no, current_level, last, now, shown, last_tick>>

NextLoad == LoadLevel

SpecLoad == InitLoad /\ [][NextLoad]_vars

-----------------------------------------------------------------------------
(* SpecAnim: Level.update called on a small level at chosen clock times    *)

\* The map of the animated level: the player between four blocks, a hazard
\* and an exit out of its reach
AnimLevel ==
    << ".", "B", NL,
       "B", "P", "B", "T", NL,
       ".", "B", "E", NL >>

\* The latest time the model follows, and the times between two calls
MaxTime == 520
Steps == {50, 150, 400}
\* The values of random.randint(0, 500) the model draws
Jitters == {0, 150, 500}
\* The calls at which the clock moves on during one Level.update: at none,
\* or at the one after the player's
Slips == {0, 2}

\* The draws of the objects of the animated level: one for the player, one
\* for the others
AnimDraws ==
    {[i \in 1..7 |-> IF i = 1 THEN a ELSE b] : a \in Jitters, b \in Jitters}

\* Level("...", file, SPRITE_SIZE) on the map AnimLevel at clock time 0
InitAnim ==
    /\ now = 0
    /\ current_level = Level(AnimLevel).instance
    /\ anim \in {new_animations(Level(AnimLevel).scanned, readings(7, 0, 0), draws) :
                     draws \in AnimDraws}
    /\ shown = <<>>
    /\ pc = "animate"
    /\ text = <<>>
    /\ loaded = NoLevel
    /\ level_no = 1
    /\ last = NoLast
    /\ last_tick = 0

\* level.update(pressed_keys), dt milliseconds after the clock was last read
AnimateFrame(dt, slip, keys) ==
    /\ pc = "animate"
    /\ now + dt + 1 <= MaxTime
    /\ LET ticks == readings(Len(the_level.all_objects), now + dt, slip)
           after == Level_update(the_level, anim, keys, ticks)
       IN /\ current_level' = <<after.level>>
          /\ anim' = after.anim
          /\ shown' = <<[before |-> anim, ticks |-> ticks]>>
          /\ now' = ticks[Len(ticks)]
    /\ UNCHANGED <<pc, text, loaded, level_no, last, last_tick>>

NextAnim ==
    \E dt \in Steps, slip \in Slips, keys \in Keys : AnimateFrame(dt, slip, keys)

SpecAnim == InitAnim /\ [][NextAnim]_vars


-----------------------------------------------------------------------------
(* Properties of Player.update, read off the log of the last iteration     *)

\* The state follows a level.update of play()
Updated == pc = "play" /\ last.step = "update"

\* The box at (x, y)
Box(x, y) == [x |-> x, y |-> y]

\* The horizontal speed the keys of the logged update gave
LoggedHorizontal ==
    IF last.keys.right THEN MOVE_SPEED
    ELSE IF last.keys.left THEN -MOVE_SPEED ELSE 0

\* The player's box right after the horizontal move of the logged update
AfterHorizontalMove == Box(last.before.x + LoggedHorizontal, last.before.y)

\* The logged update started with a jump
LoggedJump == last.keys.up /\ last.before.bottom_collision

\* The vertical speed the logged update moved with, in tenths
LoggedVertical ==
    IF LoggedJump THEN -(JUMP_SPEED * 10) ELSE last.before.vertical_speed

\* The player's box right after the vertical move of the logged update (the
\* vertical pass leaves x as the horizontal pass set it)
AfterVerticalMove ==
    Box(the_player.x, last.before.y + move_ip_vertical(LoggedVertical))

SolidsHitBy(box) ==
    {i \in 1..Len(the_level.safe_objects) : colliderect(the_level.safe_objects[i], box)}

\* C1: an update that moves the player right into a solid object ends with
\* horizontal speed 0 and the player's right edge on that object's left
\* edge; moving left into one ends with horizontal speed 0 and the player's
\* left edge on that object's right edge.
C1_WallStop ==
    Updated =>
        \A i \in SolidsHitBy(AfterHorizontalMove) :
            /\ LoggedHorizontal > 0 =>
                  /\ the_player.horizontal_speed = 0
                  /\ right(the_player) = left(the_level.safe_objects[i])
            /\ LoggedHorizontal < 0 =>
                  /\ the_player.horizontal_speed = 0
                  /\ left(the_player) = right(the_level.safe_objects[i])

\* Witness of C1: the player walked right into a wall and was stopped by it.
C1_Witness ==
    /\ Updated
    /\ LoggedHorizontal > 0
    /\ SolidsHitBy(AfterHorizontalMove) # {}
    /\ the_player.x < last.before.x + MOVE_SPEED

\* C2 as claimed: an update that moves the player down into a solid object
\* ends with vertical speed 0 (no fall acceleration added), bottom_collision
\* true and the player's bottom edge on that object's top edge, whichever
\* of the solid objects under the moved box it is.
C2_AsClaimed ==
    (Updated /\ LoggedVertical > 0) =>
        \A i \in SolidsHitBy(AfterVerticalMove) :
            /\ the_player.vertical_speed = 0
            /\ the_player.bottom_collision
            /\ bottom(the_player) = top(the_level.safe_objects[i])


\* The player's bottom edge is on the top edge of a solid object under it
StandsOnSolid(p) ==
    \E i \in 1..Len(the_level.safe_objects) :
        LET o == the_level.safe_objects[i]
        IN bottom(p) = top(o) /\ left(p) < right(o) /\ left(o) < right(p)

\* C3: after every update bottom_collision is true exactly when the
\* player's bottom edge is on the top edge of a solid object under it.
C3_FlagIffContact ==
    Updated => (the_player.bottom_collision <=> StandsOnSolid(the_player))

\* The logged update moved the player down into a solid object
LoggedLanding == LoggedVertical > 0 /\ SolidsHitBy(AfterVerticalMove) # {}

\* C4, the jump frame: an update that starts with bottom_collision true and
\* "up" pressed moves the player with vertical speed -JUMP_SPEED: ten pixels
\* up with the fall acceleration added afterwards, or up against the bottom
\* edge of a solid object in the way; bottom_collision is false after it.
C4_JumpFrame ==
    (Updated /\ LoggedJump) =>
        /\ ~the_player.bottom_collision
        /\ IF SolidsHitBy(AfterVerticalMove) = {}
           THEN /\ the_player.y = last.before.y - JUMP_SPEED
                /\ the_player.vertical_speed = FALL_ACCELERATION - JUMP_SPEED * 10
           ELSE /\ the_player.vertical_speed = FALL_ACCELERATION
                /\ \E i \in SolidsHitBy(AfterVerticalMove) :
                       top(the_player) = bottom(the_level.safe_objects[i])

\* C4, the frame after: bottom_collision is true after the update that
\* follows a jump frame only if that update moved the player down into a
\* solid object.
C4_NextFrame ==
    (Updated /\ LoggedJump /\ Updated') =>
        (the_player.bottom_collision' => LoggedLanding')

\* C4: grounded and "up" pressed, the frame moves with -JUMP_SPEED, and the
\* flag is false after the next update unless the player lands in it.
C4_Jump == [](C4_JumpFrame) /\ [][C4_NextFrame]_vars

\* Witness of C4: a jump that rose the full ten pixels.
C4_Witness ==
    /\ Updated
    /\ LoggedJump
    /\ the_player.y = last.before.y - JUMP_SPEED

\* C5: the vertical speed is set to -JUMP_SPEED only in an update that
\* starts with bottom_collision true; with the flag false "up" changes
\* nothing (the player moves with the speed it had); and the flag is true
\* after an update only if that update moved the player down into a solid
\* object.
C5_JumpOnlyGrounded ==
    Updated =>
        /\ the_player.vertical_speed = FALL_ACCELERATION - JUMP_SPEED * 10
              => LoggedJump
        /\ (~last.before.bottom_collision /\ SolidsHitBy(AfterVerticalMove) = {}) =>
              /\ the_player.y =
                     last.before.y + move_ip_vertical(last.before.vertical_speed)
              /\ the_player.vertical_speed =
                     last.before.vertical_speed + FALL_ACCELERATION
        /\ the_player.bottom_collision => LoggedLanding

\* Witness of C5: "up" held in mid-air, and the player fell on.
C5_Witness ==
    /\ Updated
    /\ last.keys.up
    /\ ~last.before.bottom_collision
    /\ last.before.vertical_speed > 10
    /\ the_player.y > last.before.y


-----------------------------------------------------------------------------
(* Properties of play(), read off the log of the last iteration            *)

\* The log describes an iteration of play() on current_level
Played == last.step \in {"win", "lose", "update"}

\* The player's box when the logged iteration made its two tests
TestedBox == Box(last.before.x, last.before.y)

Overlaps(box, group) == \E i \in 1..Len(group) : colliderect(box, group[i])
OverExit == Overlaps(TestedBox, the_level.exits)
OverTrap == Overlaps(TestedBox, the_level.traps)

\* The two tests left the player as it was
PlayerUntouched == Before(the_player) = last.before

\* C9 as claimed: an iteration that finds the player on an exit ends the
\* attempt as complete, one that finds it on a hazard ends it as failed,
\* and neither test touches the player.
C9_AsClaimed ==
    Played =>
        /\ OverExit => last.step = "win"
        /\ OverTrap => last.step = "lose"
        /\ last.step \in {"win", "lose"} => PlayerUntouched

\* C9, amended: an iteration that no QUIT event ends finds the player on an
\* exit and ends the attempt as complete, or on a hazard and on no exit and
\* ends it as failed, or on neither and runs the update; the outcome rests
\* on the boxes alone and the two tests leave the player (speeds, resting
\* flag, position) as it was.
C9_WinLose ==
    Played =>
        /\ OverExit => last.step = "win"
        /\ (OverTrap /\ ~OverExit) => last.step = "lose"
        /\ (~OverTrap /\ ~OverExit) => last.step = "update"
        /\ last.step \in {"win", "lose"} => PlayerUntouched

\* Witness of C9: a falling player reached a hazard and the attempt failed.
C9_Witness ==
    /\ last.step = "lose"
    /\ OverTrap
    /\ ~OverExit
    /\ the_player.vertical_speed > 0

-----------------------------------------------------------------------------
(* Properties of Level(...), under SpecLoad                                *)

LoadDone == pc \in {"loaded", "ValueError", "AttributeError"}

CountChar(s, ch) == Cardinality({i \in 1..Len(s) : s[i] = ch})

\* The class a map character stands for
KindOf(ch) ==
    CASE ch = "B" -> "Block"
      [] ch = "T" -> "Fire"
      [] ch = "t" -> "BlueFire"
      [] ch = "E" -> "LevelExit"
      [] ch = "P" -> "Player"

\* One object per cell holding a character of chs, in reading order, at
\* (column * size, row * size)
ObjectsAt(cs, chs) ==
    LET f == SelectSeq(cs, LAMBDA c : c.cell \in chs)
    IN [j \in 1..Len(f) |->
           BaseObject(KindOf(f[j].cell),
                      f[j].column_num * SPRITE_SIZE, f[j].row_num * SPRITE_SIZE)]

PlayersAt(cs) ==
    LET f == SelectSeq(cs, LAMBDA c : c.cell = "P")
    IN [j \in 1..Len(f) |->
           Player(f[j].column_num * SPRITE_SIZE, f[j].row_num * SPRITE_SIZE)]

\* The groups of lv hold exactly the objects of the cells cs
GroupsMatch(lv, cs) ==
    /\ lv.safe_objects = ObjectsAt(cs, {"B"})
    /\ lv.traps = ObjectsAt(cs, {"T", "t"})
    /\ lv.exits = ObjectsAt(cs, {"E"})

\* The cells of the map as load_map reads them
ReadCells == cells_from(read_from_file(text), 1)

\* The position in ReadCells of the second "P"
SecondP ==
    LET ps == {i \in 1..Len(ReadCells) : ReadCells[i].cell = "P"}
        first == CHOOSE i \in ps : \A j \in ps : i <= j
    IN CHOOSE i \in ps \ {first} : \A j \in ps \ {first} : i <= j

\* C6: loading a map with more than one "P" raises ValueError at the second
\* "P" (the objects of the cells before it were made, none after) and the
\* caller gets no Level instance.
C6_DuplicatePlayer ==
    (LoadDone /\ CountChar(text, "P") >= 2) =>
        /\ loaded.raised = "ValueError"
        /\ loaded.instance = <<>>
        /\ GroupsMatch(loaded.scanned, SubSeq(ReadCells, 1, SecondP - 1))
        /\ loaded.scanned.player = PlayersAt(SubSeq(ReadCells, 1, SecondP - 1))

\* Witness of C6: a map with two "P" and a block after the second was
\* loaded.
C6_Witness ==
    /\ LoadDone
    /\ CountChar(text, "P") = 2
    /\ text[Len(text)] = "B"
    /\ loaded.raised = "ValueError"

\* C7 as claimed: loading a map with no "P" raises nothing and gives a
\* level with the player unset and the three groups filled.
C7_AsClaimed ==
    (LoadDone /\ CountChar(text, "P") = 0) =>
        /\ loaded.raised = ""
        /\ loaded.instance # <<>>
        /\ loaded.scanned.player = <<>>
        /\ GroupsMatch(loaded.scanned, ReadCells)

\* C7, amended: loading a map with no "P" raises no ValueError; the scan
\* ends with the player unset and the three groups filled as for any other
\* map; then adding the unset player to all_objects raises AttributeError
\* and the caller gets no Level instance.
C7_NoPlayer ==
    (LoadDone /\ CountChar(text, "P") = 0) =>
        /\ loaded.raised = "AttributeError"
        /\ loaded.instance = <<>>
        /\ loaded.scanned.player = <<>>
        /\ GroupsMatch(loaded.scanned, ReadCells)

\* Witness of C7: a map of a block, a hazard and an exit, without "P", was
\* loaded.
C7_Witness ==
    /\ LoadDone
    /\ CountChar(text, "P") = 0
    /\ loaded.scanned.safe_objects # <<>>
    /\ loaded.scanned.traps # <<>>
    /\ loaded.scanned.exits # <<>>

\* A row with its trailing whitespace removed, and nothing else
rstrip(row) ==
    LET keep == {i \in 1..Len(row) : row[i] \notin Whitespace}
    IN IF keep = {} THEN <<>>
       ELSE SubSeq(row, 1, CHOOSE i \in keep : \A j \in keep : j <= i)

\* The cells of the text source, rows stripped of trailing whitespace only
SourceCells ==
    LET rows == readlines(text)
    IN cells_from([r \in 1..Len(rows) |-> rstrip(rows[r])], 1)

\* C8: every character at row r, column c of the text (trailing whitespace
\* stripped, nothing else) gives exactly one object at (c * size, r * size)
\* in its group, and no other character gives an object.  Stated for the
\* maps with one "P", those that give a level.
C8_CellPositions ==
    (LoadDone /\ CountChar(text, "P") = 1) =>
        /\ loaded.instance # <<>>
        /\ GroupsMatch(loaded.instance[1], SourceCells)
        /\ loaded.instance[1].player = PlayersAt(SourceCells)

-----------------------------------------------------------------------------
(* Properties of animate, under SpecAnim                                   *)

\* Object i as the last Level.update found it, and the clock as the animate
\* call on it read it
Found(i) == shown[1].before[i]
ReadAt(i) == shown[1].ticks[i]

\* C10: one animate call at time t on an object with n frames, index i and
\* next-due d: if n > 1 and t has passed d the index becomes (i + 1) mod n
\* and next-due becomes d + ANIMATION_SPEED, otherwise both stay; so a
\* single-frame object stays on frame 0 and every index stays in 0..n-1,
\* the player's too when its frame set is switched.
C10_Animate ==
    /\ \A i \in 1..Len(anim) :
          /\ anim[i].sprite_animation_index \in 0..(sprite_count(anim[i].kind) - 1)
          /\ anim[i].surf.index \in 0..(sprite_count(anim[i].kind) - 1)
          /\ sprite_count(anim[i].kind) = 1 =>
                anim[i].sprite_animation_index = 0 /\ anim[i].surf.index = 0
    /\ shown # <<>> =>
          \A i \in 1..Len(anim) :
              LET o == Found(i)
                  n == sprite_count(o.kind)
              IN IF n > 1 /\ ReadAt(i) > o.next_animation_time
                 THEN /\ anim[i].sprite_animation_index =
                             (o.sprite_animation_index + 1) % n
                      /\ anim[i].surf.index = anim[i].sprite_animation_index
                      /\ anim[i].next_animation_time =
                             o.next_animation_time + ANIMATION_SPEED
                 ELSE /\ anim[i].sprite_animation_index = o.sprite_animation_index
                      /\ anim[i].next_animation_time = o.next_animation_time

\* Witness of C10: the left-facing player wrapped from its last frame to
\* frame 0 on a call that came late.
C10_Witness ==
    /\ shown # <<>>
    /\ \E i \in 1..Len(anim) :
          /\ anim[i].kind = "Player"
          /\ the_player.sprites = "left"
          /\ anim[i].surf = [sprites |-> "left", index |-> 0]
          /\ Found(i).sprite_animation_index = sprite_count("Player") - 1
          /\ anim[i].sprite_animation_index = 0
          /\ ReadAt(i) > Found(i).next_animation_time + 1
          /\ anim[i].next_animation_time # ReadAt(i) + ANIMATION_SPEED

\* Whole cadence intervals between the next-due time of o and the time t
IntervalsSince(o, t) == (t - o.next_animation_time) \div ANIMATION_SPEED

\* The animate call found object i a cadence interval or more past its
\* next-due time
CalledLate(i) ==
    /\ sprite_count(Found(i).kind) >= 2
    /\ ReadAt(i) >= Found(i).next_animation_time + ANIMATION_SPEED

\* C11 as claimed: a call that comes a cadence interval or more after the
\* next-due time of an object with two frames or more advances its index
\* by the number of cadence intervals elapsed, modulo the frame count
\* (counted without or with the interval that ended at the next-due time).
C11_AsClaimed ==
    shown # <<>> =>
        \A i \in 1..Len(anim) :
            CalledLate(i) =>
                \E k \in {IntervalsSince(Found(i), ReadAt(i)),
                          IntervalsSince(Found(i), ReadAt(i)) + 1} :
                    anim[i].sprite_animation_index =
                        (Found(i).sprite_animation_index + k)
                            % sprite_count(anim[i].kind)

\* C11, amended: a call that comes a cadence interval or more after the
\* next-due time d of an object with two frames or more advances its index
\* by one, modulo the frame count, however many intervals have elapsed, and
\* sets next-due to d + ANIMATION_SPEED, which the time of the call has
\* reached: the frames still owed are made up one per later call.
C11_OnePerCall ==
    shown # <<>> =>
        \A i \in 1..Len(anim) :
            CalledLate(i) =>
                /\ anim[i].sprite_animation_index =
                       (Found(i).sprite_animation_index + 1)
                           % sprite_count(anim[i].kind)
                /\ anim[i].next_animation_time =
                       Found(i).next_animation_time + ANIMATION_SPEED
                /\ anim[i].next_animation_time <= ReadAt(i)

\* Witness of C11: a fire was called two cadence intervals late and moved on
\* by one frame.
C11_Witness ==
    /\ shown # <<>>
    /\ \E i \in 1..Len(anim) :
          /\ anim[i].kind = "Fire"
          /\ ReadAt(i) >= Found(i).next_animation_time + 2 * ANIMATION_SPEED
          /\ anim[i].sprite_animation_index =
                 Found(i).sprite_animation_index + 1


-----------------------------------------------------------------------------
(* Properties of Level.update, under Spec                                  *)

\* The player's box as the state has it
PlayerBox == Box(the_player.x, the_player.y)

\* The cells of the map file of the level being played
LevelCells == cells_from(read_from_file(levels[level_no]), 1)

\* C12: the update resolves the physics against the solid objects only:
\* where the moved box meets no solid object the player moves freely
\* (x by the horizontal speed of the keys, y by the vertical speed cut to
\* whole pixels, the fall acceleration added, bottom_collision false)
\* whether or not a hazard or an exit is in the way; and while a level is
\* played its solid objects, hazards and exits are the objects of the map
\* cells, each at its cell's position.
C12_SolidsOnly ==
    /\ pc = "play" => GroupsMatch(the_level, LevelCells)
    /\ Updated =>
          /\ SolidsHitBy(AfterHorizontalMove) = {} =>
                /\ the_player.x = last.before.x + LoggedHorizontal
                /\ the_player.horizontal_speed = LoggedHorizontal
          /\ SolidsHitBy(AfterVerticalMove) = {} =>
                /\ the_player.y = last.before.y + move_ip_vertical(LoggedVertical)
                /\ the_player.vertical_speed = LoggedVertical + FALL_ACCELERATION
                /\ ~the_player.bottom_collision

\* Witness of C12: an update let the player fall into an exit or a hazard
\* that it did not touch before.
C12_Witness ==
    /\ Updated
    /\ SolidsHitBy(AfterVerticalMove) = {}
    /\ the_player.y > last.before.y
    /\ Overlaps(PlayerBox, the_level.exits \o the_level.traps)


-----------------------------------------------------------------------------
(* Properties of the collision passes on the tall level, under SpecFall    *)

\* Of the solid objects the box overlaps, the first and the last in the
\* order of the loop
FirstHit(box) ==
    the_level.safe_objects[CHOOSE i \in SolidsHitBy(box) :
                               \A j \in SolidsHitBy(box) : i <= j]
LastHit(box) ==
    the_level.safe_objects[CHOOSE i \in SolidsHitBy(box) :
                               \A j \in SolidsHitBy(box) : j <= i]

\* After the logged update the player is snapped against object o on the
\* horizontal axis, on the vertical axis
SnappedHorizontal(o) ==
    /\ LoggedHorizontal > 0 => right(the_player) = left(o)
    /\ LoggedHorizontal < 0 => left(the_player) = right(o)
SnappedVertical(o) ==
    /\ LoggedVertical > 0 => bottom(the_player) = top(o)
    /\ LoggedVertical < 0 => top(the_player) = bottom(o)

\* C2, amended: an update that moves the player down into one or more
\* solid objects ends with vertical speed 0 (no fall acceleration added),
\* bottom_collision true and the player's bottom edge on the top edge of
\* the first of them in the order of the loop, which on a map loaded row by
\* row is the topmost of them.
C2_Landing ==
    (Updated /\ LoggedLanding) =>
        /\ the_player.vertical_speed = 0
        /\ the_player.bottom_collision
        /\ bottom(the_player) = top(FirstHit(AfterVerticalMove))
        /\ \A i \in SolidsHitBy(AfterVerticalMove) :
               top(FirstHit(AfterVerticalMove)) <= top(the_level.safe_objects[i])

\* Witness of C2: a fall of more than a tile in one frame put the box over
\* solid objects of two rows; the player rests on the upper one, with speed
\* 0 and the resting flag true, and not on the lower one.
C2_Witness ==
    /\ Updated
    /\ LoggedLanding
    /\ LoggedVertical > SPRITE_SIZE * 10
    /\ Cardinality({top(the_level.safe_objects[i]) :
                        i \in SolidsHitBy(AfterVerticalMove)}) = 2
    /\ the_player.vertical_speed = 0
    /\ the_player.bottom_collision
    /\ \E i \in SolidsHitBy(AfterVerticalMove) :
           bottom(the_player) < top(the_level.safe_objects[i])

\* C13 as claimed: when the box moved in one axis pass overlaps several
\* solid objects, the player ends snapped against the last of them in the
\* order of the loop.
C13_AsClaimed ==
    Updated =>
        /\ SolidsHitBy(AfterHorizontalMove) # {} =>
              SnappedHorizontal(LastHit(AfterHorizontalMove))
        /\ SolidsHitBy(AfterVerticalMove) # {} =>
              SnappedVertical(LastHit(AfterVerticalMove))

\* C13, amended: when the box moved in one axis pass overlaps several solid
\* objects, the player ends snapped against the first of them in the order
\* of the loop: that hit zeroes the speed of the axis, and the objects after
\* it, tested against the box as it then is, move nothing.
C13_FirstWins ==
    Updated =>
        /\ SolidsHitBy(AfterHorizontalMove) # {} =>
              SnappedHorizontal(FirstHit(AfterHorizontalMove))
        /\ SolidsHitBy(AfterVerticalMove) # {} =>
              SnappedVertical(FirstHit(AfterVerticalMove))

\* Witness of C13: a fall put the box over two blocks with different top
\* edges and the player ended on the first of them.
C13_Witness ==
    /\ Updated
    /\ LoggedVertical > 0
    /\ SolidsHitBy(AfterVerticalMove) # {}
    /\ top(FirstHit(AfterVerticalMove)) # top(LastHit(AfterVerticalMove))
    /\ bottom(the_player) = top(FirstHit(AfterVerticalMove))


-----------------------------------------------------------------------------
(* Further properties of Player.update, under Spec                         *)

\* The box the logged update started with, moved right by MOVE_SPEED
MovedRight == Box(last.before.x + MOVE_SPEED, last.before.y)

\* C14: an update with "left" and "right" both pressed selects the
\* right-facing frame set and moves with +MOVE_SPEED (the player ends
\* MOVE_SPEED further right, or stopped on the left edge of a solid object
\* that the box moved right overlaps); an update with neither pressed ends
\* with horizontal speed 0 and x unchanged.
C14_RightWins ==
    Updated =>
        /\ (last.keys.left /\ last.keys.right) =>
              /\ the_player.sprites = "right"
              /\ IF SolidsHitBy(MovedRight) = {}
                 THEN /\ the_player.x = last.before.x + MOVE_SPEED
                      /\ the_player.horizontal_speed = MOVE_SPEED
                 ELSE /\ the_player.horizontal_speed = 0
                      /\ \E i \in SolidsHitBy(MovedRight) :
                             right(the_player) = left(the_level.safe_objects[i])
        /\ (~last.keys.left /\ ~last.keys.right) =>
              /\ the_player.horizontal_speed = 0
              /\ the_player.x = last.before.x

\* Witness of C14: with both keys pressed in mid-air the player moved
\* MOVE_SPEED to the right.
C14_Witness ==
    /\ Updated
    /\ last.keys.left
    /\ last.keys.right
    /\ the_player.y # last.before.y
    /\ the_player.x = last.before.x + MOVE_SPEED
    /\ the_player.sprites = "right"


\* C15: an update that moves the player up into a solid object ends with
\* the player's top edge on that object's bottom edge, bottom_collision
\* false and vertical speed FALL_ACCELERATION (zeroed by the hit, then the
\* fall acceleration added).
C15_CeilingHit ==
    (Updated /\ LoggedVertical < 0) =>
        \A i \in SolidsHitBy(AfterVerticalMove) :
            /\ top(the_player) = bottom(the_level.safe_objects[i])
            /\ ~the_player.bottom_collision
            /\ the_player.vertical_speed = FALL_ACCELERATION

\* Witness of C15: a player rising in mid-air, some frames into its jump,
\* hit a block above it.
C15_Witness ==
    /\ Updated
    /\ ~LoggedJump
    /\ LoggedVertical < 0
    /\ SolidsHitBy(AfterVerticalMove) # {}
    /\ the_player.y < last.before.y
    /\ the_player.vertical_speed = FALL_ACCELERATION


-----------------------------------------------------------------------------
(* Properties of the level loop, under SpecSeq                             *)

\* The cells of the map file of the level being played
RowCells == cells_from(read_from_file(row_levels[level_no]), 1)

\* An attempt is about to make its first iteration
AttemptStarts == pc = "play" /\ last.step = ""

\* C16, the start of an attempt: the level is the one built from the map
\* file of level_no, the player at the cell of its "P" with both speeds
\* zero, the resting flag false and the right-facing frame set.
C16_FreshAttempt ==
    AttemptStarts =>
        /\ the_level.player = PlayersAt(RowCells)
        /\ GroupsMatch(the_level, RowCells)
        /\ Len(anim) = Len(the_level.all_objects)
        /\ \A i \in 1..Len(anim) :
               /\ anim[i].sprite_animation_index = 0
               /\ anim[i].next_animation_time - (now - 2 * sleep_time) \in 0..500

\* C16, between attempts: an attempt that ended is followed by nothing but
\* the construction of a Level.
C16_AttemptOver ==
    /\ last.step = "lose" => pc = "construct"
    /\ last.step = "win" => pc \in {"construct", "victory"}

\* C16, the steps of the loop: the level number changes only by one, up,
\* and only as an attempt ends as complete on an exit; a failed attempt
\* leaves it; and the construction starts an attempt on the level of that
\* number.
C16_LoopStep ==
    /\ level_no' # level_no =>
          /\ level_no' = level_no + 1
          /\ last'.step = "win"
          /\ spritecollideany(the_player, the_level.exits)
    /\ last'.step = "lose" => level_no' = level_no
    /\ pc = "construct" => (AttemptStarts' /\ level_no' = level_no)

\* C16: the level loop moves on only after a completed attempt, and every
\* attempt, the first and the one after a failure alike, starts on a fresh
\* Level of the map.
C16_Sequencing ==
    [](C16_FreshAttempt /\ C16_AttemptOver) /\ [][C16_LoopStep]_vars

\* Witness of C16: the first level was attempted and failed, and the loop
\* constructed it again: later than the first time, the next attempt is
\* about to start with the player at the "P" cell and every object on its
\* first frame.
C16_Witness ==
    /\ AttemptStarts
    /\ level_no = 1
    /\ now > 2 * sleep_time
    /\ the_level.player = PlayersAt(RowCells)
    /\ anim[1].sprite_animation_index = 0


-----------------------------------------------------------------------------
(* Tunnelling, under SpecFall                                              *)

\* Solid object o is in the columns of the player, before and after the
\* logged update
InColumnsOf(o) ==
    /\ left(the_player) < right(o) /\ left(o) < right(the_player)
    /\ last.before.x < right(o) /\ left(o) < last.before.x + image_width

\* The logged update took the player from above solid object o to below it
PassedThrough(o) ==
    /\ InColumnsOf(o)
    /\ last.before.y + image_height <= top(o)
    /\ top(the_player) >= bottom(o)

\* C17: on a level of grid-aligned tiles, the player starting clear of the
\* solid objects, every update ends with the player's box overlapping no
\* solid object, and no update takes the player from one side of a solid
\* object to the other.
C17_NeverInside ==
    Updated =>
        /\ SolidsHitBy(PlayerBox) = {}
        /\ \A i \in 1..Len(the_level.safe_objects) :
               ~PassedThrough(the_level.safe_objects[i])


-----------------------------------------------------------------------------
(* The order of the tests of play(), under Spec                            *)

\* C18, the order of the tests: an iteration that finds the player on an
\* exit and on a hazard at once ends the attempt as complete; an iteration
\* that ran the update found the player, as it was before that update, on
\* neither.
C18_TestsFirst ==
    /\ (Played /\ OverExit /\ OverTrap) => last.step = "win"
    /\ last.step = "update" => (~OverExit /\ ~OverTrap)

\* C18, the next iteration: from a state in which the player is on an exit
\* or a hazard, the step that follows ends the attempt (or, on a QUIT
\* event, the program) and leaves the level and the player as they are.
C18_NoFurtherStep ==
    (pc = "play" /\ Overlaps(PlayerBox, the_level.exits \o the_level.traps)) =>
        /\ pc' = "quit" \/ last'.step \in {"win", "lose"}
        /\ current_level' = current_level
        /\ anim' = anim
        /\ pc' # "play"

\* C18: the exit test comes before the hazard test, both before the update
\* of the iteration, and an overlap an update made ends the attempt at the
\* next iteration before any other update.
C18_ExitBeforeHazard == [](C18_TestsFirst) /\ [][C18_NoFurtherStep]_vars

\* Witness of C18: an update left the falling player on the exit and on the
\* hazard beside it, and the next iteration ended the attempt as complete.
C18_Witness ==
    /\ last.step = "win"
    /\ OverExit
    /\ OverTrap
    /\ the_player.vertical_speed > 0
    /\ PlayerUntouched


-----------------------------------------------------------------------------
(* The standing player, under Spec                                         *)

\* The logged update started with the player standing on a solid object
StoodBefore == StandsOnSolid(TestedBox)

\* C19: an update with no key pressed that starts with the player standing
\* on a solid object leaves the player's box where it was, whatever the
\* vertical speed and the resting flag were and become.
C19_StandsStill ==
    (Updated /\ last.keys = NoKeys /\ StoodBefore) =>
        /\ the_player.x = last.before.x
        /\ the_player.y = last.before.y
        /\ StandsOnSolid(the_player)

\* Witness of C19: the standing player's speed had grown to 1.2, the update
\* moved the box one pixel into the block and snapped it back, and the box
\* is where it was with the flag turned from false to true.
C19_Witness ==
    /\ Updated
    /\ last.keys = NoKeys
    /\ StoodBefore
    /\ last.before.vertical_speed = 4 * FALL_ACCELERATION
    /\ ~last.before.bottom_collision
    /\ the_player.bottom_collision
    /\ the_player.y = last.before.y


-----------------------------------------------------------------------------
(* The jump of a player that holds "up", under Spec                        *)

UpOnly == [up |-> TRUE, left |-> FALSE, right |-> FALSE]

\* No solid object is in the way of a jump from where the player is
FreeAbove == SolidsHitBy(Box(the_player.x, the_player.y - JUMP_SPEED)) = {}

\* The player stands on a solid object with free space above, in play
Grounded == pc = "play" /\ StandsOnSolid(the_player) /\ FreeAbove

\* The logged update was a jump that took the player off the surface
Jumped ==
    /\ Updated
    /\ LoggedJump
    /\ the_player.vertical_speed = FALL_ACCELERATION - JUMP_SPEED * 10
    /\ the_player.y = last.before.y - JUMP_SPEED
    /\ ~StandsOnSolid(the_player)

\* The player was walked along, or the attempt is over
WalkedOrOver ==
    \/ pc # "play"
    \/ Updated /\ (last.keys.left \/ last.keys.right)

\* The step is an update of the grounded player with "up" alone
HeldStep ==
    /\ Grounded
    /\ last' = [step |-> "update", keys |-> UpOnly, before |-> Before(the_player)]

\* C20, one held frame: if the resting flag is true the update is the
\* jump; if not, the player stays on the surface and either the flag turns
\* true (the box moved into the surface and was snapped back) or the speed,
\* still below one pixel per frame, grows by FALL_ACCELERATION: the flag is
\* true after five updates at most and the jump is the update after.
C20_HeldFrame ==
    HeldStep =>
        IF the_player.bottom_collision
        THEN Jumped'
        ELSE /\ Grounded'
             /\ \/ the_player'.bottom_collision
                \/ /\ the_player.vertical_speed \in 0..9
                   /\ the_player'.vertical_speed =
                          the_player.vertical_speed + FALL_ACCELERATION

\* C20: with "up" held frame after frame, a player that stands on a solid
\* object with free space above jumps off it (vertical speed set to
\* -JUMP_SPEED, ten pixels up) in the update that finds the resting flag
\* true; an update that finds it false keeps the player on the surface, and
\* five such updates at most come before the jump.
C20_HeldJump == [][C20_HeldFrame]_vars

\* Witness of C20: "up" alone was held by a player standing still on a
\* block with the resting flag true, and the update took it off the
\* surface, ten pixels up.
C20_Witness ==
    /\ Jumped
    /\ last.keys = UpOnly
    /\ StoodBefore
    /\ last.before.vertical_speed = 0
    /\ SolidsHitBy(TestedBox) = {}
    /\ SolidsHitBy(Box(last.before.x, last.before.y - JUMP_SPEED)) = {}


=============================================================================
